---- MODULE Spec2Model ----
(***************************************************************************)
(* RadioButton.Item (src/components/RadioButton/RadioButtonItem.tsx): a    *)
(* pressable row that pairs a label with a radio indicator and reports a   *)
(* press to its own onPress prop and to the onValueChange of the ambient   *)
(* RadioButtonContext.  The model holds one owner component (the usage     *)
(* example of the file) that renders NumItems items, optionally inside a   *)
(* RadioButton.Group, and the element tree of the last render pass.        *)
(***************************************************************************)
EXTENDS Integers, Sequences, FiniteSets, TLC

\* number of RadioButton.Item siblings the owner renders
NumItems == 2

Items == 1..NumItems

\* the strings the owner uses as item values ('first', 'second' in the usage doc)
Values == {"first", "second", "third"}

\* an optional string prop that was not supplied
Undefined == "undefined"

\* an optional function prop that was not supplied
NoCallback == <<>>

\* the function the owner passes as onPress to item i
ItemOnPress(i) == <<"onPress", i>>

\* the function the owner passes as onValueChange to RadioButton.Group
GroupOnValueChange == <<"onValueChange", 0>>

\* the props of one item that take part in press handling and in the indicator
Props ==
  [value : Values, disabled : BOOLEAN, status : {"checked", "unchecked", Undefined}]

VARIABLES
  props,       \* props[i]: value, disabled, status the owner gives item i
  onPressProp, \* onPressProp[i]: the onPress prop of item i, or NoCallback
  hasGroup,    \* TRUE iff the items are rendered inside a RadioButton.Group
  ownerValue,  \* this.state.value of the owner, handed to the group as value
  tree,        \* tree[i]: the elements item i returned from its last render
  last,        \* the item whose row was pressed last, 0 before any press
  lastCalls,   \* the callbacks invoked by the last press, in call order
  prevValue,   \* ownerValue right before the last press
  first        \* the props, the context and the tree of the first render pass

vars == <<props, onPressProp, hasGroup, ownerValue, tree, last, lastCalls, prevValue, first>>

\* what RadioButtonContext.Consumer hands to its child function
RadioButtonContext(group, value) ==
  [present |-> group,
   value |-> IF group THEN value ELSE Undefined,
   onValueChange |-> IF group THEN GroupOnValueChange ELSE NoCallback]

\* context?.onValueChange
ContextOnValueChange(context) ==
  IF context.present THEN context.onValueChange ELSE NoCallback

\* the indicator RadioButton shows for its props under the ambient context
RadioButton(p, context) ==
  [value |-> p.value,
   disabled |-> p.disabled,
   status |-> p.status,
   checked |-> IF p.status # Undefined
               THEN p.status = "checked"
               ELSE context.present /\ context.value = p.value]

\* handlePress({ onPress, onValueChange, value }): the calls it makes, in order
handlePress(a) ==
  (IF a.onPress # NoCallback
   THEN << [fn |-> a.onPress, arg |-> Undefined] >> ELSE << >>)
  \o
  (IF a.onValueChange # NoCallback
   THEN << [fn |-> a.onValueChange, arg |-> a.value] >> ELSE << >>)

\* RadioButtonItem with the handler attached whether or not disabled is set
RadioButtonItem_AlwaysPressable(p, onPress, context) ==
  [onPress |-> << [onPress |-> onPress,
                   onValueChange |-> ContextOnValueChange(context),
                   value |-> p.value] >>,
   radio |-> RadioButton([value |-> p.value,
                          disabled |-> p.disabled,
                          status |-> p.status], context)]

\* RadioButtonItem handing the context's value, not its own, to handlePress
RadioButtonItem_ContextValueArg(p, onPress, context) ==
  [onPress |-> IF p.disabled
               THEN << >>
               ELSE << [onPress |-> onPress,
                        onValueChange |-> ContextOnValueChange(context),
                        value |-> context.value] >>,
   radio |-> RadioButton([value |-> p.value,
                          disabled |-> p.disabled,
                          status |-> p.status], context)]

\* RadioButtonItem handing its own value to handlePress only when it carries
\* a status, and the context's value otherwise
RadioButtonItem_StatusValueArg(p, onPress, context) ==
  [onPress |-> IF p.disabled
               THEN << >>
               ELSE << [onPress |-> onPress,
                        onValueChange |-> ContextOnValueChange(context),
                        value |-> IF p.status = Undefined
                                  THEN context.value ELSE p.value] >>,
   radio |-> RadioButton([value |-> p.value,
                          disabled |-> p.disabled,
                          status |-> p.status], context)]

\* RadioButtonItem that does not forward its status prop to RadioButton
RadioButtonItem_NoStatus(p, onPress, context) ==
  [onPress |-> IF p.disabled
               THEN << >>
               ELSE << [onPress |-> onPress,
                        onValueChange |-> ContextOnValueChange(context),
                        value |-> p.value] >>,
   radio |-> RadioButton([value |-> p.value,
                          disabled |-> p.disabled,
                          status |-> Undefined], context)]

\* RadioButtonItem that does not forward context?.onValueChange to handlePress
RadioButtonItem_NoOnValueChange(p, onPress, context) ==
  [onPress |-> IF p.disabled
               THEN << >>
               ELSE << [onPress |-> onPress,
                        onValueChange |-> NoCallback,
                        value |-> p.value] >>,
   radio |-> RadioButton([value |-> p.value,
                          disabled |-> p.disabled,
                          status |-> p.status], context)]

\* RadioButtonItem that does not forward its onPress prop to handlePress
RadioButtonItem_NoOnPress(p, onPress, context) ==
  [onPress |-> IF p.disabled
               THEN << >>
               ELSE << [onPress |-> NoCallback,
                        onValueChange |-> ContextOnValueChange(context),
                        value |-> p.value] >>,
   radio |-> RadioButton([value |-> p.value,
                          disabled |-> p.disabled,
                          status |-> p.status], context)]

\* RadioButtonItem handing the context's value to RadioButton as its value
RadioButtonItem_RadioContextValue(p, onPress, context) ==
  [onPress |-> IF p.disabled
               THEN << >>
               ELSE << [onPress |-> onPress,
                        onValueChange |-> ContextOnValueChange(context),
                        value |-> p.value] >>,
   radio |-> RadioButton([value |-> context.value,
                          disabled |-> p.disabled,
                          status |-> p.status], context)]

\* RadioButtonItem that keeps the context of the previous render pass in the
\* instance and renders from it
RadioButtonItem_Stale(p, onPress, context) ==
  LET kept == [context EXCEPT !.value = IF context.present THEN ownerValue
                                        ELSE Undefined]
  IN [onPress |-> IF p.disabled
                  THEN << >>
                  ELSE << [onPress |-> onPress,
                           onValueChange |-> ContextOnValueChange(kept),
                           value |-> p.value] >>,
      radio |-> RadioButton([value |-> p.value,
                             disabled |-> p.disabled,
                             status |-> p.status], kept)]

\* RadioButtonItem that attaches no handler to the row of the selected item
RadioButtonItem_SuppressSelected(p, onPress, context) ==
  [onPress |-> IF p.disabled \/ (context.present /\ context.value = p.value)
               THEN << >>
               ELSE << [onPress |-> onPress,
                        onValueChange |-> ContextOnValueChange(context),
                        value |-> p.value] >>,
   radio |-> RadioButton([value |-> p.value,
                          disabled |-> p.disabled,
                          status |-> p.status], context)]

\* RadioButtonItem that shows a disabled item unchecked
RadioButtonItem_DisabledUnchecked(p, onPress, context) ==
  [onPress |-> IF p.disabled
               THEN << >>
               ELSE << [onPress |-> onPress,
                        onValueChange |-> ContextOnValueChange(context),
                        value |-> p.value] >>,
   radio |-> RadioButton([value |-> p.value,
                          disabled |-> p.disabled,
                          status |-> IF p.disabled THEN "unchecked"
                                     ELSE p.status], context)]

\* RadioButtonItem.render: the TouchableRipple with its onPress closure (a
\* sequence holding the closure's captured arguments, empty when no handler
\* is attached) around the RadioButton
RadioButtonItem(p, onPress, context) ==
  [onPress |-> IF p.disabled
               THEN << >>
               ELSE << [onPress |-> onPress,
                        onValueChange |-> ContextOnValueChange(context),
                        value |-> p.value] >>,
   radio |-> RadioButton([value |-> p.value,
                          disabled |-> p.disabled,
                          status |-> p.status], context)]

\* one render pass of the owner: every item under the same context
RenderTree(ps, cbs, context) ==
  [i \in Items |-> RadioButtonItem(ps[i], cbs[i], context)]

\* TouchableRipple: a press runs the attached onPress, if there is one
TouchableRipple(element) ==
  IF element.onPress = << >> THEN << >> ELSE handlePress(element.onPress[1])

\* the owner's onValueChange={value => this.setState({ value })}, applied to
\* the calls of one press in order
RECURSIVE SetState(_, _)
SetState(value, calls) ==
  IF calls = << >> THEN value
  ELSE SetState(IF Head(calls).fn = GroupOnValueChange
                THEN Head(calls).arg ELSE value,
                Tail(calls))

Init ==
  /\ props \in [Items -> Props]
  /\ onPressProp \in [Items -> {NoCallback} \cup {ItemOnPress(i) : i \in Items}]
  /\ \A i \in Items : onPressProp[i] \in {NoCallback, ItemOnPress(i)}
  /\ hasGroup \in BOOLEAN
  /\ ownerValue \in Values \cup {Undefined}
  /\ (~hasGroup => ownerValue = Undefined)
  /\ tree = RenderTree(props, onPressProp, RadioButtonContext(hasGroup, ownerValue))
  /\ last = 0
  /\ lastCalls = << >>
  /\ prevValue = ownerValue
  /\ first = [props |-> props, onPress |-> onPressProp,
              context |-> RadioButtonContext(hasGroup, ownerValue), tree |-> tree]

\* the user presses the row of item i: the handler of the rendered row runs,
\* the owner stores what onValueChange received and renders again
Press(i) ==
  LET calls == TouchableRipple(tree[i])
      value == SetState(ownerValue, calls)
  IN /\ ownerValue' = value
     /\ tree' = RenderTree(props, onPressProp, RadioButtonContext(hasGroup, value))
     /\ last' = i
     /\ lastCalls' = calls
     /\ prevValue' = ownerValue
     /\ UNCHANGED <<props, onPressProp, hasGroup, first>>

Next == \E i \in Items : Press(i)

Spec == Init /\ [][Next]_vars

TypeOK ==
  /\ props \in [Items -> Props]
  /\ hasGroup \in BOOLEAN
  /\ ownerValue \in Values \cup {Undefined}
  /\ last \in 0..NumItems
  /\ Len(lastCalls) <= 2

----------------------------------------------------------------------------
\* the indicator item i shows in the last render pass
Checked(i) == tree[i].radio.checked

\* the call of item i's own onPress, and of the group's onValueChange with v
OnPressCall(i) == [fn |-> ItemOnPress(i), arg |-> Undefined]
OnValueChangeCall(v) == [fn |-> GroupOnValueChange, arg |-> v]

\* a step is a press on the row of item i: every Press(i) step records i in
\* last, and no other step of Next changes any variable
Pressed(i) == last' = i

\* C1: a press on the row of a disabled item invokes neither the item's
\* onPress nor the channel's onValueChange, whatever onPress, channel, status
\* and value are, and the channel's value after the press is its value before.
C1_DisabledPressInvokesNothing ==
  (last # 0 /\ props[last].disabled) =>
    (lastCalls = << >> /\ ownerValue = prevValue)

C1_Witness ==
  /\ last # 0
  /\ props[last].disabled
  /\ onPressProp[last] # NoCallback
  /\ hasGroup
  /\ ownerValue # props[last].value
  /\ lastCalls = << >>

\* C2: a press on a non-disabled item that has an onPress, inside a channel,
\* invokes onPress first and onValueChange second, and onValueChange receives
\* the pressed item's own value.
C2_OnPressThenOnValueChange ==
  (last # 0 /\ ~props[last].disabled /\ onPressProp[last] # NoCallback /\ hasGroup) =>
    /\ Len(lastCalls) = 2
    /\ lastCalls[1] = OnPressCall(last)
    /\ lastCalls[2].fn = GroupOnValueChange
    /\ lastCalls[2].arg = props[last].value

C2_Witness ==
  /\ last # 0
  /\ ~props[last].disabled
  /\ onPressProp[last] # NoCallback
  /\ hasGroup
  /\ prevValue \in Values
  /\ prevValue # props[last].value
  /\ \E j \in Items \ {last} : props[j].value = prevValue
  /\ Len(lastCalls) = 2
  /\ lastCalls[2].arg = props[last].value

\* C3: the indicator of an item is checked iff its status is given and is
\* 'checked', or its status is absent and the channel is present with a value
\* equal to the item's value.
C3_CheckedIff ==
  \A i \in Items :
    Checked(i) <=>
      \/ (props[i].status # Undefined /\ props[i].status = "checked")
      \/ (props[i].status = Undefined /\ hasGroup /\ ownerValue = props[i].value)

C3_Witness ==
  /\ last # 0
  /\ hasGroup
  /\ props[last].status = "unchecked"
  /\ ownerValue = props[last].value
  /\ ~Checked(last)
  /\ \E j \in Items : props[j].status = "checked" /\ props[j].value # ownerValue /\ Checked(j)

\* C4: after a press on a non-disabled item without status override, inside a
\* group whose owner stores the received value, the pressed item is shown
\* checked and every item without status override and with another value is
\* shown unchecked.
C4_LastPressedIsChecked ==
  (last # 0 /\ hasGroup /\ ~props[last].disabled /\ props[last].status = Undefined) =>
    /\ Checked(last)
    /\ \A j \in Items :
         (props[j].status = Undefined /\ props[j].value # props[last].value) =>
           ~Checked(j)

C4_Witness ==
  /\ hasGroup
  /\ props[1].value = "first" /\ props[2].value = "second"
  /\ \A j \in Items : props[j].status = Undefined /\ ~props[j].disabled
  /\ first.context.value = "first"
  /\ first.tree[1].radio.checked /\ ~first.tree[2].radio.checked
  /\ last = 2
  /\ ownerValue = "second"
  /\ ~Checked(1) /\ Checked(2)

\* C5: when the items have pairwise distinct values and none has a status
\* override, at most one item is shown checked, and none is when the channel
\* is absent or its value is no item's value.
C5_AtMostOneChecked ==
  ((\A i, j \in Items : i # j => props[i].value # props[j].value)
     /\ (\A i \in Items : props[i].status = Undefined)) =>
    /\ Cardinality({i \in Items : Checked(i)}) <= 1
    /\ ((~hasGroup \/ \A i \in Items : props[i].value # ownerValue) =>
          \A i \in Items : ~Checked(i))

C5_Witness ==
  /\ \A i, j \in Items : i # j => props[i].value # props[j].value
  /\ \A i \in Items : props[i].status = Undefined
  /\ hasGroup
  /\ last # 0
  /\ prevValue # ownerValue
  /\ Cardinality({i \in Items : Checked(i)}) = 1

C7_PresentCallbacksOnce ==
  [][\A i \in Items :
       (Pressed(i) /\ ~props[i].disabled) =>
         /\ (~hasGroup /\ onPressProp[i] # NoCallback) =>
              lastCalls' = << OnPressCall(i) >>
         /\ (hasGroup /\ onPressProp[i] = NoCallback) =>
              lastCalls' = << OnValueChangeCall(props[i].value) >>
         /\ (hasGroup /\ onPressProp[i] # NoCallback) =>
              lastCalls' = << OnPressCall(i), OnValueChangeCall(props[i].value) >>
         /\ (~hasGroup /\ onPressProp[i] = NoCallback) =>
              (lastCalls' = << >> /\ UNCHANGED <<ownerValue, tree, props, onPressProp, hasGroup>>)]_vars

C7_Witness ==
  /\ last # 0
  /\ ~props[last].disabled
  /\ ~hasGroup
  /\ onPressProp[last] # NoCallback
  /\ lastCalls = << OnPressCall(last) >>

\* C8: a press on an item invokes no other item's onPress and onValueChange
\* only with the pressed item's value; the channel value changes only in a
\* press that invoked onValueChange with the new value; after a press that
\* invoked onValueChange the channel value is the pressed item's value.
C8_PressesAreIndependent ==
  /\ [](last # 0 =>
          /\ \A k \in 1..Len(lastCalls) :
               \/ lastCalls[k] = OnPressCall(last)
               \/ lastCalls[k] = OnValueChangeCall(props[last].value)
          /\ (\E k \in 1..Len(lastCalls) : lastCalls[k].fn = GroupOnValueChange) =>
               ownerValue = props[last].value)
  /\ [][ownerValue' # ownerValue =>
          \E k \in 1..Len(lastCalls') : lastCalls'[k] = OnValueChangeCall(ownerValue')]_vars

C8_Witness ==
  /\ last # 0
  /\ hasGroup
  /\ ~props[last].disabled
  /\ \E a \in Items \ {last} :
       /\ ~props[a].disabled
       /\ onPressProp[a] # NoCallback
       /\ props[a].value = prevValue
       /\ props[a].value # props[last].value
  /\ onPressProp[last] # NoCallback
  /\ Len(lastCalls) = 2
  /\ ownerValue = props[last].value

\* C9: a press on a non-disabled item that is already the selected one, or
\* that was the last one pressed, still invokes onPress (if present) and
\* onValueChange with the item's value, and leaves the channel value and
\* every item's indicator as they were.
C9_RepeatedPress ==
  [][\A i \in Items :
       (Pressed(i) /\ ~props[i].disabled /\ hasGroup
          /\ (ownerValue = props[i].value \/ last = i)) =>
         /\ lastCalls' = (IF onPressProp[i] # NoCallback
                          THEN << OnPressCall(i) >> ELSE << >>)
                         \o << OnValueChangeCall(props[i].value) >>
         /\ ownerValue' = ownerValue
         /\ \A j \in Items : tree'[j].radio.checked = tree[j].radio.checked]_vars

C9_Witness ==
  /\ last # 0
  /\ hasGroup
  /\ ~props[last].disabled
  /\ props[last].status = Undefined
  /\ prevValue = props[last].value
  /\ ownerValue = prevValue
  /\ Len(lastCalls) >= 1
  /\ lastCalls[Len(lastCalls)] = OnValueChangeCall(props[last].value)
  /\ Checked(last)

\* C10: a disabled item without status override whose value is the channel
\* value is shown checked, and a press on a non-disabled item of the group
\* sets the channel value to that item's value and leaves every disabled item
\* without status override and with another value unchecked.
C10_DisabledOnlySuppressesPress ==
  /\ [](\A i \in Items :
          (props[i].disabled /\ props[i].status = Undefined
             /\ hasGroup /\ ownerValue = props[i].value) => Checked(i))
  /\ [][\A j \in Items :
          (Pressed(j) /\ ~props[j].disabled /\ hasGroup) =>
            /\ ownerValue' = props[j].value
            /\ \A i \in Items :
                 (props[i].disabled /\ props[i].status = Undefined
                    /\ props[i].value # props[j].value) => ~tree'[i].radio.checked]_vars

C10_Witness ==
  /\ last # 0
  /\ hasGroup
  /\ ~props[last].disabled
  /\ \E i \in Items \ {last} :
       /\ props[i].disabled
       /\ props[i].status = Undefined
       /\ props[i].value = prevValue
       /\ first.tree[i].radio.checked
       /\ ~Checked(i)
  /\ ownerValue = props[last].value
====
